---- MODULE Spec2Model ----
(***************************************************************************)
(* Model of internal/helpers/util.go of shhgit: the HTTP fetch helper,     *)
(* token selection, the checkable-file walk, the temp-directory helper,    *)
(* the clone helpers and the entropy scorer.  Every helper is stateless;   *)
(* each gets its own specification over the variables it reads and writes, *)
(* the other helpers' variables staying at their initial values.           *)
(***************************************************************************)
EXTENDS Integers, Sequences, FiniteSets, TLC

VARIABLES
    fetchIn,      \* the environment's answers to the last FetchUrlAs call
    fetchOut,     \* how the last FetchUrlAs call ended: outcome, err
    target,       \* the caller-supplied decode target v
    tokens,       \* configSource.Tokens
    tokenOut,     \* how the last GetRandomToken call ended
    walkOS,       \* the operating system the walk runs on
    maximumFileSize, \* GetCheckableFiles' size ceiling, in kilobytes
    blacklists,   \* settings.ConfigBlacklists: Extensions and Paths
    tree,         \* the directory tree under dir
    walkPc,       \* "idle", "walking", "returned" or "panicked"
    pending,      \* the entries filepath.Walk has still to visit, in order
    visited,      \* the entries the walk function was called for
    fileList,     \* the list GetCheckableFiles builds
    walkErr,      \* what filepath.Walk returns (the function drops it)
    dirExists,    \* GetTempDir: whether prefix/suffix exists on disk
    dirContent,   \* the entries inside prefix/suffix
    tempOut,      \* the last GetTempDir call: what it found, and what followed
    data,         \* GetEntropy's input, a sequence of bytes
    entropyOut,   \* the last GetEntropy call: the frequencies it used
    cloneCmd,     \* the clone call in progress: argv and timeout
    clonePc,      \* "idle", "running" (inside cloneCmd.Run) or "returned"
    elapsed,      \* whole seconds since the context was created
    ctxDone,      \* the context's deadline has expired
    proc,         \* the child process: "none", "running", "exited", "killed", "reaped"
    exitCode,     \* the child's exit code once it exited on its own
    spawned,      \* child processes started by this call
    cloneErr,     \* the error the call returned
    cloneDir,     \* the target directory: "absent", "partial" or "complete"
    cloneHist     \* what happened: aliveAtDeadline, procWrote, exitedOnOwn, executable

fetchVars == <<fetchIn, fetchOut, target>>
tokenVars == <<tokens, tokenOut>>
walkVars == <<walkOS, maximumFileSize, blacklists, tree, walkPc, pending, visited,
              fileList, walkErr>>
tempVars == <<dirExists, dirContent, tempOut>>
entropyVars == <<data, entropyOut>>
cloneVars == <<cloneCmd, clonePc, elapsed, ctxDone, proc, exitCode, spawned, cloneErr,
               cloneDir, cloneHist>>
vars == <<fetchVars, tokenVars, walkVars, tempVars, entropyVars, cloneVars>>

(***************************************************************************)
(* FetchUrlAs                                                              *)
(***************************************************************************)

\* The nil error value.
Nil == "<nil>"

\* Errors http.DefaultClient.Do can return (transport level).
TransportErrors == {"connection refused", "no such host", "tls: handshake failure", "timeout"}

\* Status codes a server can answer with (a sample around the three branches).
StatusCodes == {200, 204, 404, 429, 500, 503}

\* resp.Status, the status line text that comes with resp.StatusCode.
StatusLine(code) ==
    CASE code = 200 -> "200 OK"
      [] code = 204 -> "204 No Content"
      [] code = 404 -> "404 Not Found"
      [] code = 429 -> "429 Too Many Requests"
      [] code = 500 -> "500 Internal Server Error"
      [] code = 503 -> "503 Service Unavailable"
      [] OTHER -> "000 Unknown"

\* http.StatusTooManyRequests, http.StatusInternalServerError, http.StatusOK
StatusTooManyRequests == 429
StatusInternalServerError == 500
StatusOK == 200

\* http.NewRequest("GET", urlStr, nil): a request, or nil and a parse error.
NewRequest(urlOk) ==
    IF urlOk THEN [req |-> "request", err |-> Nil]
             ELSE [req |-> "nil", err |-> "parse error"]

\* Lines 111-119: the error returned for a response status, Nil to go on.
StatusErrorSwapped(code, status) ==
    IF code = StatusTooManyRequests THEN "internal server error"
    ELSE IF code = StatusInternalServerError THEN "rate limited"
    ELSE IF code # StatusOK THEN "got " \o status \o ", wanted 200 OK"
    ELSE Nil

StatusError(code, status) ==
    IF code = StatusTooManyRequests THEN "rate limited"
    ELSE IF code = StatusInternalServerError THEN "internal server error"
    ELSE IF code # StatusOK THEN "got " \o status \o ", wanted 200 OK"
    ELSE Nil

\* json.Unmarshal(contents, v): the error and the new value of v.
Unmarshal(body, v) ==
    CASE body = "valid"     -> [err |-> Nil, v |-> "decoded"]
      [] body = "mistyped"  -> [err |-> "json: cannot unmarshal", v |-> "partial"]
      [] OTHER              -> [err |-> "invalid character", v |-> v]

Bodies == {"valid", "mistyped", "malformed"}

\* The whole function.  in: urlOk, authSet, doErr, code, readErr, body.
\* The err of line 103 is the one line 126 returns; lines 108 and 121
\* declare their own err in the scope of their if statement.
FetchUrlAs(in, v) ==
    LET r == NewRequest(in.urlOk)
        err == r.err
    IN  IF r.req = "nil"
        THEN \* req.Header.Add on a nil request (line 105), or Do(nil) (line 108)
             [outcome |-> IF in.authSet THEN "panic at Header.Add" ELSE "panic at Do",
              err |-> Nil, v |-> v]
        ELSE IF in.doErr = Nil
             THEN IF StatusError(in.code, StatusLine(in.code)) # Nil
                  THEN [outcome |-> "return",
                        err |-> StatusError(in.code, StatusLine(in.code)), v |-> v]
                  ELSE IF in.readErr = Nil
                       THEN [outcome |-> "return",
                             err |-> Unmarshal(in.body, v).err,
                             v |-> Unmarshal(in.body, v).v]
                       ELSE [outcome |-> "return", err |-> err, v |-> v]
             ELSE [outcome |-> "return", err |-> err, v |-> v]

\* What the environment can answer to one call.
FetchInputs ==
    [urlOk : BOOLEAN, authSet : BOOLEAN, doErr : TransportErrors, code : {0},
     readErr : {Nil}, body : {"valid"}]
    \cup
    [urlOk : BOOLEAN, authSet : BOOLEAN, doErr : {Nil}, code : StatusCodes,
     readErr : {Nil, "unexpected EOF"}, body : Bodies]

NoCall == [urlOk |-> TRUE, authSet |-> FALSE, doErr |-> Nil, code |-> 0,
           readErr |-> Nil, body |-> "valid"]

FetchIdle ==
    /\ fetchIn = NoCall
    /\ fetchOut = [outcome |-> "none", err |-> Nil, before |-> "zero"]
    /\ target = "zero"

FetchInit ==
    /\ fetchIn = NoCall
    /\ fetchOut = [outcome |-> "none", err |-> Nil, before |-> "zero"]
    /\ target \in {"zero", "previous"}

CallFetchUrlAs ==
    \E in \in FetchInputs :
        LET res == FetchUrlAs(in, target)
        IN  /\ fetchIn' = in
            /\ fetchOut' = [outcome |-> res.outcome, err |-> res.err, before |-> target]
            /\ target' = res.v
            /\ UNCHANGED <<tokenVars, walkVars, tempVars, entropyVars, cloneVars>>

(***************************************************************************)
(* GetRandomToken                                                          *)
(***************************************************************************)

MaxTokens == 3
TokenNames == {"t1", "t2", "t3"}

Pools == UNION {[1..n -> TokenNames] : n \in 0..MaxTokens}

\* rand.Intn(n) panics for n <= 0 ("invalid argument to Intn").
IntnPanics(n) == n <= 0

\* The values rand.Intn(n) can return when it does not panic.
Intn(n) == 0..(n - 1)

\* Lines 185-188.  Go indexes from 0; an index outside the slice panics.
GetRandomToken(pool, draw) ==
    IF IntnPanics(Len(pool)) THEN [outcome |-> "panic", token |-> "", draw |-> 0]
    ELSE IF draw + 1 \in DOMAIN pool
         THEN [outcome |-> "return", token |-> pool[draw + 1], draw |-> draw]
         ELSE [outcome |-> "panic", token |-> "", draw |-> draw]

TokenIdle ==
    /\ tokens = <<>>
    /\ tokenOut = [outcome |-> "none", token |-> "", draw |-> 0]

TokenInit ==
    /\ tokens \in Pools
    /\ tokenOut = [outcome |-> "none", token |-> "", draw |-> 0]

CallGetRandomToken ==
    /\ \E draw \in (IF IntnPanics(Len(tokens)) THEN {0} ELSE Intn(Len(tokens))) :
           tokenOut' = GetRandomToken(tokens, draw)
    /\ UNCHANGED <<tokens, fetchVars, walkVars, tempVars, entropyVars, cloneVars>>

(***************************************************************************)
(* GetCheckableFiles                                                       *)
(* Strings are sequences of one-character strings, so that extension,      *)
(* case and substring tests are computed and not assumed.                  *)
(***************************************************************************)

\* os.PathSeparator of the build: '/' on unix, '\' on windows.
Separator(os) == IF os = "windows" THEN "\\" ELSE "/"

\* os.IsPathSeparator: windows accepts both.
IsPathSeparator(os, c) == IF os = "windows" THEN c \in {"\\", "/"} ELSE c = "/"

\* filepath.Join(dir, name)
Join(os, dir, name) == dir \o <<Separator(os)>> \o name

\* filepath.ToSlash(path): every Separator replaced by '/'.
ToSlash(os, path) ==
    [i \in DOMAIN path |-> IF path[i] = Separator(os) THEN "/" ELSE path[i]]

\* strings.ToLower over the letters the model uses.
LowerOf(c) ==
    CASE c = "A" -> "a"
      [] c = "D" -> "d"
      [] c = "E" -> "e"
      [] c = "X" -> "x"
      [] OTHER -> c

ToLower(str) == [i \in DOMAIN str |-> LowerOf(str[i])]

\* filepath.Ext(path): the suffix from the last '.' of the last path element.
RECURSIVE ExtFrom(_, _, _)
ExtFrom(os, path, i) ==
    IF i < 1 \/ IsPathSeparator(os, path[i]) THEN <<>>
    ELSE IF path[i] = "." THEN SubSeq(path, i, Len(path))
    ELSE ExtFrom(os, path, i - 1)

Ext(os, path) == ExtFrom(os, path, Len(path))

\* strings.Contains(str, substr)
Contains(str, substr) ==
    \E i \in 1..(Len(str) + 1) :
        /\ i + Len(substr) - 1 <= Len(str)
        /\ SubSeq(str, i, i + Len(substr) - 1) = substr

\* Line 131: maximumFileSizeKb := maximumFileSize * 1024, an int64 product; it is
\* exact for the kilobyte ceilings drawn here (any ceiling below 2^53).
MaximumFileSizeKb(maxSize) == maxSize * 1024

\* Line 134, third operand: file.Size() > maximumFileSizeKb
TooLargeGeq(size, maximumFileSizeKb) == size >= maximumFileSizeKb

TooLarge(size, maximumFileSizeKb) == size > maximumFileSizeKb

\* Lines 138-143: the extension loop; TRUE when the file is to be skipped.
SkippableExt(os, path, extensions) ==
    LET extension == ToLower(Ext(os, path))
    IN  \E k \in DOMAIN extensions : extension = extensions[k]

\* Lines 145-149: the path loop; TRUE when the file is to be skipped.
SkippablePath(os, path, paths) ==
    \E k \in DOMAIN paths : Contains(ToSlash(os, path), paths[k])

\* Lines 133-154: the walk function.  file is "nil" when Walk could not
\* lstat the entry (isNil), else carries isDir and size.  Returns what it returns to Walk, the
\* new fileList, and whether it panicked (a nil file dereferenced).
WalkFnAbortOnErr(os, path, file, err, list, maxSize, bl) ==
    IF err # Nil THEN [ret |-> err, fileList |-> list, panic |-> FALSE]
    ELSE IF file.isDir \/ TooLarge(file.size, MaximumFileSizeKb(maxSize))
    THEN [ret |-> Nil, fileList |-> list, panic |-> FALSE]
    ELSE IF SkippableExt(os, path, bl.Extensions)
    THEN [ret |-> Nil, fileList |-> list, panic |-> FALSE]
    ELSE IF SkippablePath(os, path, bl.Paths)
    THEN [ret |-> Nil, fileList |-> list, panic |-> FALSE]
    ELSE [ret |-> Nil, fileList |-> Append(list, path), panic |-> FALSE]

WalkFn(os, path, file, err, list, maxSize, bl) ==
    IF err # Nil THEN [ret |-> Nil, fileList |-> list, panic |-> FALSE]
    ELSE IF file.isNil THEN [ret |-> Nil, fileList |-> list, panic |-> TRUE]
    ELSE IF file.isDir \/ TooLarge(file.size, MaximumFileSizeKb(maxSize))
    THEN [ret |-> Nil, fileList |-> list, panic |-> FALSE]
    ELSE IF SkippableExt(os, path, bl.Extensions)
    THEN [ret |-> Nil, fileList |-> list, panic |-> FALSE]
    ELSE IF SkippablePath(os, path, bl.Paths)
    THEN [ret |-> Nil, fileList |-> list, panic |-> FALSE]
    ELSE [ret |-> Nil, fileList |-> Append(list, path), panic |-> FALSE]

\* The tree: dir "r" holds a directory (with one file in it) and, after it
\* in lexical order, a file.
MaxCeiling == 1
Ceilings == 0..MaxCeiling
Sizes == {0, 1024, 1025}
Statuses == {"ok", "lstatErr", "readErr"}
DirNames == {<<"d">>, <<"D">>}
ChildNames == {<<"a", ".", "x">>, <<"a", ".", "X">>, <<"a">>}
SibNames == {<<"e", ".", "X">>}
ExtensionLists == {<<>>, << <<".", "x">> >>, << <<".", "X">> >>}
PathLists == {<<>>, << <<"d", "/">> >>, << <<"D", "/">> >>}

FileAttrs(names) == [name : names, size : Sizes, err : BOOLEAN]

DefaultTree == [root |-> "ok",
                dir |-> [name |-> <<"d">>, status |-> "ok"],
                child |-> [name |-> <<"a">>, size |-> 0, err |-> FALSE],
                sib |-> [name |-> <<"e", ".", "X">>, size |-> 0, err |-> FALSE]]

Trees ==
    [root : {"ok"}, dir : [name : DirNames, status : Statuses],
     child : FileAttrs(ChildNames), sib : FileAttrs(SibNames)]
    \cup {[DefaultTree EXCEPT !.root = st] : st \in {"lstatErr", "readErr"}}

Ids == {"root", "dir", "child", "sib"}

IsDirId(id) == id \in {"root", "dir"}

Path(os, t, id) ==
    CASE id = "root"  -> <<"r">>
      [] id = "dir"   -> Join(os, <<"r">>, t.dir.name)
      [] id = "child" -> Join(os, Join(os, <<"r">>, t.dir.name), t.child.name)
      [] id = "sib"   -> Join(os, <<"r">>, t.sib.name)

\* os.Lstat of the entry failed: Walk passes a nil FileInfo and the error.
LstatFails(t, id) ==
    CASE id = "root"  -> t.root = "lstatErr"
      [] id = "dir"   -> t.dir.status = "lstatErr"
      [] id = "child" -> t.child.err
      [] id = "sib"   -> t.sib.err

\* Reading the names of a directory failed: Walk passes its FileInfo and the error.
ReadDirFails(t, id) ==
    CASE id = "root"  -> t.root = "readErr"
      [] id = "dir"   -> t.dir.status = "readErr"
      [] OTHER -> FALSE

SizeOf(t, id) ==
    CASE id = "child" -> t.child.size
      [] id = "sib"   -> t.sib.size
      [] OTHER -> 4096

\* The os.FileInfo Walk hands to the walk function.
Info(t, id) == [isNil |-> LstatFails(t, id), isDir |-> IsDirId(id), size |-> SizeOf(t, id)]

\* The error Walk hands to the walk function.
WalkErrOf(t, id) ==
    IF LstatFails(t, id) THEN "lstat: permission denied"
    ELSE IF ReadDirFails(t, id) THEN "open: permission denied"
    ELSE Nil

\* The names of a directory, sorted as Walk sorts them.
Children(id) ==
    CASE id = "root" -> <<"dir", "sib">>
      [] id = "dir"  -> <<"child">>
      [] OTHER -> <<>>

WalkIdle ==
    /\ walkOS = "unix"
    /\ maximumFileSize = 0
    /\ blacklists = [Extensions |-> <<>>, Paths |-> <<>>]
    /\ tree = DefaultTree
    /\ walkPc = "idle"
    /\ pending = <<>>
    /\ visited = <<>>
    /\ fileList = <<>>
    /\ walkErr = Nil

WalkInit ==
    /\ walkOS \in {"unix", "windows"}
    /\ maximumFileSize \in Ceilings
    /\ blacklists \in [Extensions : ExtensionLists, Paths : PathLists]
    /\ tree \in Trees
    /\ walkPc = "idle"
    /\ pending = <<>>
    /\ visited = <<>>
    /\ fileList = <<>>
    /\ walkErr = Nil

\* Lines 130-133: the empty list, and filepath.Walk starting at dir.
CallGetCheckableFiles ==
    /\ walkPc = "idle"
    /\ walkPc' = "walking"
    /\ fileList' = <<>>
    /\ pending' = <<"root">>
    /\ UNCHANGED <<walkOS, maximumFileSize, blacklists, tree, visited, walkErr>>
    /\ UNCHANGED <<fetchVars, tokenVars, tempVars, entropyVars, cloneVars>>

\* filepath.Walk's step for one entry: lstat it, call the walk function, and
\* go on with the entry's children, its siblings, or stop on a non-nil return.
VisitEntry ==
    /\ walkPc = "walking"
    /\ pending # <<>>
    /\ LET id == Head(pending)
           r == WalkFn(walkOS, Path(walkOS, tree, id), Info(tree, id), WalkErrOf(tree, id),
                       fileList, maximumFileSize, blacklists)
       IN  /\ visited' = Append(visited, id)
           /\ fileList' = r.fileList
           /\ IF r.panic
              THEN /\ walkPc' = "panicked"
                   /\ pending' = <<>>
                   /\ walkErr' = walkErr
              ELSE IF r.ret # Nil
              THEN /\ walkPc' = walkPc
                   /\ pending' = <<>>
                   /\ walkErr' = r.ret
              ELSE /\ walkPc' = walkPc
                   /\ walkErr' = walkErr
                   /\ pending' = IF IsDirId(id) /\ WalkErrOf(tree, id) = Nil
                                 THEN Children(id) \o Tail(pending)
                                 ELSE Tail(pending)
    /\ UNCHANGED <<walkOS, maximumFileSize, blacklists, tree>>
    /\ UNCHANGED <<fetchVars, tokenVars, tempVars, entropyVars, cloneVars>>

\* Line 156: Walk is over, its error dropped; fileList is returned.
ReturnFileList ==
    /\ walkPc = "walking"
    /\ pending = <<>>
    /\ walkPc' = "returned"
    /\ UNCHANGED <<walkOS, maximumFileSize, blacklists, tree, pending, visited, fileList,
                   walkErr>>
    /\ UNCHANGED <<fetchVars, tokenVars, tempVars, entropyVars, cloneVars>>

(***************************************************************************)
(* GetTempDir                                                              *)
(***************************************************************************)

EntryNames == {"f1", "f2", "f3", "f4"}

\* os.Stat(dir) followed by os.IsNotExist(err)
IsNotExist(exists) == ~exists

\* Lines 25-35: the directory's state after the call.
GetTempDir(exists, content) ==
    IF IsNotExist(exists)
    THEN [exists |-> TRUE, content |-> {}]      \* os.MkdirAll(dir, os.ModePerm)
    ELSE [exists |-> FALSE, content |-> {}]     \* os.RemoveAll(dir)

TempIdle ==
    /\ dirExists = FALSE
    /\ dirContent = {}
    /\ tempOut = [pc |-> "none", existed |-> FALSE, before |-> {}]

TempInit ==
    /\ dirExists \in BOOLEAN
    /\ dirContent \in (IF dirExists THEN SUBSET EntryNames ELSE {{}})
    /\ tempOut = [pc |-> "none", existed |-> FALSE, before |-> {}]

CallGetTempDir ==
    /\ dirExists' = GetTempDir(dirExists, dirContent).exists
    /\ dirContent' = GetTempDir(dirExists, dirContent).content
    /\ tempOut' = [pc |-> "returned", existed |-> dirExists, before |-> dirContent]
    /\ UNCHANGED <<fetchVars, tokenVars, walkVars, entropyVars, cloneVars>>

\* The directory's user (a clone, a scan) creates it when it is missing.
UserCreate ==
    /\ ~dirExists
    /\ dirExists' = TRUE
    /\ dirContent' = {}
    /\ tempOut' = [tempOut EXCEPT !.pc = "used"]
    /\ UNCHANGED <<fetchVars, tokenVars, walkVars, entropyVars, cloneVars>>

\* The directory's user writes an entry into it.
UserWrite ==
    /\ dirExists
    /\ \E f \in EntryNames \ dirContent : dirContent' = dirContent \cup {f}
    /\ tempOut' = [tempOut EXCEPT !.pc = "used"]
    /\ UNCHANGED <<dirExists, fetchVars, tokenVars, walkVars, entropyVars, cloneVars>>

(***************************************************************************)
(* GetEntropy                                                              *)
(* A Go string is a sequence of bytes, a byte a number in 0..255.          *)
(***************************************************************************)

MaxLen == 3
ByteValues == 0..255
SampleBytes == {97, 98, 136, 195, 200, 255}
Inputs == UNION {[1..n -> SampleBytes] : n \in 0..MaxLen}

\* string(byte(i)): the conversion of an integer to a string gives the UTF-8
\* encoding of the code point i: one byte below 128, two bytes from 128 on.
ByteString(i) ==
    IF i < 128 THEN <<i>> ELSE <<192 + (i \div 64), 128 + (i % 64)>>

\* strings.Count(str, substr) for a non-empty substr: the non-overlapping
\* occurrences, found from the left.
RECURSIVE CountFrom(_, _, _)
CountFrom(str, substr, i) ==
    IF i + Len(substr) - 1 > Len(str) THEN 0
    ELSE IF SubSeq(str, i, i + Len(substr) - 1) = substr
         THEN 1 + CountFrom(str, substr, i + Len(substr))
         ELSE CountFrom(str, substr, i + 1)

Count(str, substr) == CountFrom(str, substr, 1)

\* Lines 65-78.  px, a float64 quotient, is kept as the pair of its numerator
\* and denominator.  A term -px*log2(px) is 0 when px = 1 and positive when
\* 0 < px < 1, so the sum is 0 exactly when no term has 0 < px < 1.
GetEntropy(str) ==
    IF str = <<>>
    THEN [px |-> [i \in ByteValues |-> <<0, 0>>], zero |-> TRUE]
    ELSE LET px == [i \in ByteValues |-> <<Count(str, ByteString(i)), Len(str)>>]
         IN  [px |-> px,
              zero |-> \A i \in ByteValues : px[i][1] > 0 => px[i][1] = px[i][2]]

EntropyIdle ==
    /\ data = <<>>
    /\ entropyOut = [pc |-> "none", nonzero |-> {}, zero |-> TRUE]

EntropyInit ==
    /\ data \in Inputs
    /\ entropyOut = [pc |-> "none", nonzero |-> {}, zero |-> TRUE]

\* The frequencies are recorded for the byte values that got a nonzero one.
CallGetEntropy ==
    /\ entropyOut.pc = "none"
    /\ LET r == GetEntropy(data)
       IN  entropyOut' = [pc |-> "returned",
                          nonzero |-> {<<i, r.px[i]>> : i \in {j \in ByteValues : r.px[j][1] > 0}},
                          zero |-> r.zero]
    /\ UNCHANGED <<data, fetchVars, tokenVars, walkVars, tempVars, cloneVars>>

(***************************************************************************)
(* CloneGitRepository, CloneMercurialRepository                            *)
(* Time is counted in whole seconds.  exec.CommandContext kills the child  *)
(* when the context becomes done before the child completes on its own.    *)
(***************************************************************************)

MaxTimeout == 2
Timeouts == 0..MaxTimeout
ExitCodes == {0, 1, 128}

\* Line 164: the command line of the git client.
GitArgs(url, dir) ==
    <<"git", "clone", url, dir, "--quiet", "--no-tags", "--single-branch", "--depth=1">>

\* Line 177: the command line of the mercurial client.
HgArgs(url, dir) == <<"hg", "clone", url, dir, "--stream">>

\* context.WithTimeout(ctx, d): with d <= 0 the context is done at once.
DoneAtCreation(timeout) == timeout <= 0

\* cloneCmd.Run's start: the error that keeps the child from being started
\* (the context already done, or the client not executable), Nil when it starts.
StartError(done, executable) ==
    IF done THEN "context deadline exceeded"
    ELSE IF ~executable THEN "exec: executable file not found in $PATH"
    ELSE Nil

\* exec.CommandContext's watcher when the context becomes done.
OnDeadlineAbandon(p) == p

OnDeadline(p) == IF p = "running" THEN "killed" ELSE p

\* cloneCmd.Run's result once the child has been waited for.
WaitError(p, code) ==
    IF p = "killed" THEN "signal: killed"
    ELSE IF code # 0 THEN "exit status"
    ELSE Nil

NoHist == [aliveAtDeadline |-> FALSE, procWrote |-> FALSE, exitedOnOwn |-> FALSE,
           executable |-> TRUE]

CloneIdle ==
    /\ cloneCmd = [argv |-> <<>>, timeout |-> 0]
    /\ clonePc = "idle"
    /\ elapsed = 0
    /\ ctxDone = FALSE
    /\ proc = "none"
    /\ exitCode = 0
    /\ spawned = 0
    /\ cloneErr = Nil
    /\ cloneDir = "absent"
    /\ cloneHist = NoHist

CloneInit == CloneIdle

\* Lines 160-165 (172-178): the context, the command, and Run as far as the
\* child's start: the call's state once Run has started the child or failed to.
StartClone(argv, timeout, executable) ==
    LET err == StartError(DoneAtCreation(timeout), executable)
    IN  [cmd |-> [argv |-> argv, timeout |-> timeout],
         done |-> DoneAtCreation(timeout),
         pc |-> IF err # Nil THEN "returned" ELSE "running",
         err |-> err,
         proc |-> IF err # Nil THEN "none" ELSE "running",
         spawned |-> IF err # Nil THEN 0 ELSE 1]

CallCloneGitRepository ==
    /\ clonePc = "idle"
    /\ \E timeout \in Timeouts, executable \in BOOLEAN :
        LET st == StartClone(GitArgs("url", "dir"), timeout, executable)
        IN  /\ cloneCmd' = st.cmd
            /\ ctxDone' = st.done
            /\ clonePc' = st.pc
            /\ cloneErr' = st.err
            /\ proc' = st.proc
            /\ spawned' = spawned + st.spawned
            /\ cloneHist' = [cloneHist EXCEPT !.executable = executable]
    /\ elapsed' = 0
    /\ UNCHANGED <<exitCode, cloneDir>>
    /\ UNCHANGED <<fetchVars, tokenVars, walkVars, tempVars, entropyVars>>

CallCloneMercurialRepository ==
    /\ clonePc = "idle"
    /\ \E timeout \in Timeouts, executable \in BOOLEAN :
        LET st == StartClone(HgArgs("url", "dir"), timeout, executable)
        IN  /\ cloneCmd' = st.cmd
            /\ ctxDone' = st.done
            /\ clonePc' = st.pc
            /\ cloneErr' = st.err
            /\ proc' = st.proc
            /\ spawned' = spawned + st.spawned
            /\ cloneHist' = [cloneHist EXCEPT !.executable = executable]
    /\ elapsed' = 0
    /\ UNCHANGED <<exitCode, cloneDir>>
    /\ UNCHANGED <<fetchVars, tokenVars, walkVars, tempVars, entropyVars>>

\* A second passes; at the deadline the context becomes done and the
\* watcher acts on the child.
Tick ==
    /\ clonePc = "running"
    /\ elapsed < cloneCmd.timeout
    /\ elapsed' = elapsed + 1
    /\ IF elapsed + 1 = cloneCmd.timeout
       THEN /\ ctxDone' = TRUE
            /\ proc' = OnDeadline(proc)
            /\ cloneHist' = [cloneHist EXCEPT !.aliveAtDeadline = (proc = "running")]
       ELSE UNCHANGED <<ctxDone, proc, cloneHist>>
    /\ UNCHANGED <<cloneCmd, clonePc, exitCode, spawned, cloneErr, cloneDir>>
    /\ UNCHANGED <<fetchVars, tokenVars, walkVars, tempVars, entropyVars>>

\* The child writes into the target directory.
ProcWrite ==
    /\ proc = "running"
    /\ cloneDir # "complete"
    /\ cloneDir' = IF cloneDir = "absent" THEN "partial" ELSE "complete"
    /\ cloneHist' = [cloneHist EXCEPT !.procWrote = TRUE]
    /\ UNCHANGED <<cloneCmd, clonePc, elapsed, ctxDone, proc, exitCode, spawned, cloneErr>>
    /\ UNCHANGED <<fetchVars, tokenVars, walkVars, tempVars, entropyVars>>

\* The child exits on its own; a clone that succeeded has written everything.
ProcExit ==
    /\ proc = "running"
    /\ \E code \in ExitCodes :
        /\ code = 0 => cloneDir = "complete"
        /\ exitCode' = code
    /\ proc' = "exited"
    /\ cloneHist' = [cloneHist EXCEPT !.exitedOnOwn = TRUE]
    /\ UNCHANGED <<cloneCmd, clonePc, elapsed, ctxDone, spawned, cloneErr, cloneDir>>
    /\ UNCHANGED <<fetchVars, tokenVars, walkVars, tempVars, entropyVars>>

\* Lines 165-169 (178-182): Run has waited for the child and returns; the
\* deferred cancel releases the context.
WaitReturn ==
    /\ clonePc = "running"
    /\ proc \in {"exited", "killed"}
    /\ cloneErr' = WaitError(proc, exitCode)
    /\ proc' = "reaped"
    /\ clonePc' = "returned"
    /\ UNCHANGED <<cloneCmd, elapsed, ctxDone, exitCode, spawned, cloneDir, cloneHist>>
    /\ UNCHANGED <<fetchVars, tokenVars, walkVars, tempVars, entropyVars>>

(***************************************************************************)
(* Specifications                                                          *)
(***************************************************************************)

FetchNext == CallFetchUrlAs
InitFetch == FetchInit /\ TokenIdle /\ WalkIdle /\ TempIdle /\ EntropyIdle /\ CloneIdle
SpecFetch == InitFetch /\ [][FetchNext]_vars

TokenNext == CallGetRandomToken
InitToken == TokenInit /\ FetchIdle /\ WalkIdle /\ TempIdle /\ EntropyIdle /\ CloneIdle
SpecToken == InitToken /\ [][TokenNext]_vars

WalkNext == CallGetCheckableFiles \/ VisitEntry \/ ReturnFileList
InitWalk == WalkInit /\ FetchIdle /\ TokenIdle /\ TempIdle /\ EntropyIdle /\ CloneIdle
SpecWalk == InitWalk /\ [][WalkNext]_vars

TempNext == CallGetTempDir \/ UserCreate \/ UserWrite
InitTemp == TempInit /\ FetchIdle /\ TokenIdle /\ WalkIdle /\ EntropyIdle /\ CloneIdle
SpecTemp == InitTemp /\ [][TempNext]_vars

EntropyNext == CallGetEntropy
InitEntropy == EntropyInit /\ FetchIdle /\ TokenIdle /\ WalkIdle /\ TempIdle /\ CloneIdle
SpecEntropy == InitEntropy /\ [][EntropyNext]_vars

CloneNext ==
    \/ CallCloneGitRepository
    \/ CallCloneMercurialRepository
    \/ Tick
    \/ ProcWrite
    \/ ProcExit
    \/ WaitReturn
InitClone == CloneInit /\ FetchIdle /\ TokenIdle /\ WalkIdle /\ TempIdle /\ EntropyIdle
SpecClone == InitClone /\ [][CloneNext]_vars

(***************************************************************************)
(* Properties of FetchUrlAs                                                *)
(***************************************************************************)

Returned == fetchOut.outcome = "return"

\* C1: when the URL is well formed and http.DefaultClient.Do fails, the call
\* returns Do's error, a non-nil error, and never success.
C1_TransportErrorSurfaced ==
    (Returned /\ fetchIn.urlOk /\ fetchIn.doErr # Nil) =>
        (fetchOut.err = fetchIn.doErr /\ fetchOut.err # Nil)

\* C2: a 429 response gives the rate-limited error, a 500 response the
\* internal-server-error, every other status but 200 the unexpected-status
\* error with the status text in it; each of the three errors tells its class,
\* and in all three cases the target is as the caller passed it.
C2_StatusClassification ==
    (Returned /\ fetchIn.doErr = Nil /\ fetchIn.code # 200) =>
        /\ fetchIn.code = 429 => fetchOut.err = "rate limited"
        /\ fetchIn.code = 500 => fetchOut.err = "internal server error"
        /\ fetchIn.code \notin {429, 500} =>
               fetchOut.err = "got " \o StatusLine(fetchIn.code) \o ", wanted 200 OK"
        /\ fetchOut.err = "rate limited" => fetchIn.code = 429
        /\ fetchOut.err = "internal server error" => fetchIn.code = 500
        /\ fetchOut.err # Nil
        /\ target = fetchOut.before

\* A 429, a 500 and a 404 answer are all possible, here with a target that
\* held a value before the call.
C2_Witness ==
    /\ Returned
    /\ fetchIn.doErr = Nil
    /\ fetchIn.code = 429
    /\ fetchOut.err = "rate limited"
    /\ fetchOut.before = "previous"
    /\ target = "previous"

\* C3: once a response arrived, the call returns a nil error only if the
\* status was 200, the body was read to its end and it was decoded into the
\* target; a failed read of a 200 response is an error.
C3_SuccessOnlyWhenDecoded ==
    (Returned /\ fetchIn.doErr = Nil /\ fetchOut.err = Nil) =>
        /\ fetchIn.code = 200
        /\ fetchIn.readErr = Nil
        /\ fetchIn.body = "valid"
        /\ target = "decoded"

(***************************************************************************)
(* Properties of GetRandomToken                                            *)
(***************************************************************************)

\* C4: with no token in the pool the call ends in a defined error and does
\* not panic; with tokens in the pool it returns one of them.
C4_EmptyPoolRejected ==
    tokenOut.outcome # "none" =>
        /\ tokens = <<>> => tokenOut.outcome = "error"
        /\ tokens # <<>> =>
               /\ tokenOut.outcome = "return"
               /\ \E k \in DOMAIN tokens : tokens[k] = tokenOut.token

(***************************************************************************)
(* Properties of GetCheckableFiles                                         *)
(***************************************************************************)

\* Walk gets to the entry: every directory above it could be read.
Reached(t, id) ==
    CASE id = "root"  -> TRUE
      [] id = "child" -> t.root = "ok" /\ t.dir.status = "ok"
      [] OTHER        -> t.root = "ok"

\* The entry is a file Walk could stat.
ReadableFile(t, id) == Reached(t, id) /\ ~LstatFails(t, id) /\ ~IsDirId(id)

\* Walk reports an error for the entry.
Unreadable(t, id) == Reached(t, id) /\ (LstatFails(t, id) \/ ReadDirFails(t, id))

PathOf(id) == Path(walkOS, tree, id)

Occurrences(p) == Cardinality({i \in DOMAIN fileList : fileList[i] = p})

WithinCeiling(id) == SizeOf(tree, id) <= maximumFileSize * 1024

ExtensionListed(id) ==
    \E k \in DOMAIN blacklists.Extensions :
        ToLower(Ext(walkOS, PathOf(id))) = blacklists.Extensions[k]

PathListed(id) ==
    \E k \in DOMAIN blacklists.Paths :
        Contains(ToSlash(walkOS, PathOf(id)), blacklists.Paths[k])

Eligible(id) ==
    /\ ReadableFile(tree, id)
    /\ WithinCeiling(id)
    /\ ~ExtensionListed(id)
    /\ ~PathListed(id)

\* C5: every returned file is a non-directory entry of at most
\* maximumFileSize * 1024 bytes whose lowercased extension is no blacklisted
\* extension and whose slash-normalized path contains no blacklisted
\* substring; every readable file that meets the three conditions is returned
\* exactly once.
C5_ExactlyTheEligibleFiles ==
    walkPc = "returned" =>
        /\ \A i \in DOMAIN fileList :
               \E id \in Ids : PathOf(id) = fileList[i] /\ Eligible(id)
        /\ \A id \in Ids : Eligible(id) => Occurrences(PathOf(id)) = 1

\* A file of exactly the ceiling is returned while its sibling goes for its
\* extension.
C5_Witness ==
    /\ walkPc = "returned"
    /\ maximumFileSize = 1
    /\ tree.child.size = 1024
    /\ tree.sib.size = 1025
    /\ blacklists.Paths # <<>>
    /\ Occurrences(PathOf("child")) = 1
    /\ Occurrences(PathOf("sib")) = 0

\* C6: the blacklists match without regard to letter case on either side: a
\* file is left out when its extension equals a blacklisted one, or its path
\* contains a blacklisted substring, letter case ignored; an empty list leaves
\* nothing out.
C6_CaseInsensitiveBlacklists ==
    walkPc = "returned" =>
        \A id \in Ids : ReadableFile(tree, id) =>
            /\ (\E k \in DOMAIN blacklists.Extensions :
                    ToLower(Ext(walkOS, PathOf(id))) = ToLower(blacklists.Extensions[k]))
                   => Occurrences(PathOf(id)) = 0
            /\ (\E k \in DOMAIN blacklists.Paths :
                    Contains(ToLower(ToSlash(walkOS, PathOf(id))),
                             ToLower(blacklists.Paths[k])))
                   => Occurrences(PathOf(id)) = 0
            /\ (blacklists.Extensions = <<>> /\ blacklists.Paths = <<>> /\ WithinCeiling(id))
                   => Occurrences(PathOf(id)) = 1

\* C7: when Walk reports an error for an entry, the entry is left out, the
\* walk goes on to every other entry it can get to, the eligible ones are
\* returned, and the call neither panics nor stops short.
C7_WalkErrorsSkipped ==
    /\ walkPc # "panicked"
    /\ (walkPc = "returned" /\ \E bad \in Ids : Unreadable(tree, bad)) =>
           /\ walkErr = Nil
           /\ \A id \in Ids : Unreadable(tree, id) => Occurrences(PathOf(id)) = 0
           /\ \A id \in Ids : Reached(tree, id) =>
                  Cardinality({i \in DOMAIN visited : visited[i] = id}) = 1
           /\ \A id \in Ids : Eligible(id) => Occurrences(PathOf(id)) = 1

\* The directory cannot be read, and the file after it is still returned.
C7_Witness ==
    /\ walkPc = "returned"
    /\ tree.dir.status = "readErr"
    /\ visited = <<"root", "dir", "sib">>
    /\ fileList = <<PathOf("sib")>>

(***************************************************************************)
(* Properties of GetTempDir                                                *)
(***************************************************************************)

\* C8: right after every call the directory exists and holds nothing that
\* was in it before the call, whether or not it existed before.
C8_ExistsAndClean ==
    tempOut.pc = "returned" =>
        /\ dirExists
        /\ dirContent \cap tempOut.before = {}

(***************************************************************************)
(* Properties of the clone helpers                                         *)
(***************************************************************************)

\* What the claim and its amendment share: a child alive at the deadline is
\* killed and the call fails; a nonzero exit fails the call; nil means the
\* child exited with code zero before the deadline; no child is left running;
\* what the child wrote is still in the target directory after a failure.
CloneOutcome ==
    /\ proc # "running"
    /\ cloneHist.aliveAtDeadline => (cloneErr # Nil /\ ~cloneHist.exitedOnOwn)
    /\ (cloneHist.exitedOnOwn /\ exitCode # 0) => cloneErr # Nil
    /\ cloneErr = Nil =>
           /\ cloneHist.exitedOnOwn
           /\ exitCode = 0
           /\ ~cloneHist.aliveAtDeadline
    /\ spawned > 0 => proc = "reaped"
    /\ (cloneErr # Nil /\ cloneHist.procWrote) => cloneDir # "absent"

\* C9 as stated: the above, and the child is started exactly once in every call.
C9_StartedExactlyOnce ==
    clonePc = "returned" => (CloneOutcome /\ spawned = 1)

\* C9 amended: the above, and the child is started at most once; it is not
\* started at all exactly when the deadline has expired before the start
\* (a timeout of 0) or the client cannot be executed, and the call then
\* returns a non-nil error.
C9_StartedAtMostOnce ==
    clonePc = "returned" =>
        /\ CloneOutcome
        /\ spawned <= 1
        /\ spawned = 0 <=> (cloneCmd.timeout = 0 \/ ~cloneHist.executable)
        /\ spawned = 0 => cloneErr # Nil

\* The child was writing when the deadline came: it was killed and reaped,
\* the call failed, and the partial clone is still there.
C9_Witness ==
    /\ clonePc = "returned"
    /\ cloneHist.aliveAtDeadline
    /\ cloneHist.procWrote
    /\ proc = "reaped"
    /\ cloneErr = "signal: killed"
    /\ cloneDir = "partial"
    /\ spawned = 1

(***************************************************************************)
(* Properties of GetEntropy                                                *)
(***************************************************************************)

\* The number of bytes of data equal to b.
Occ(b) == Cardinality({i \in DOMAIN data : data[i] = b})

\* C10: the frequency used for each byte value b, 128 and above included, is
\* the number of bytes equal to b over the length, so that the numerators add
\* up to the length; the empty input and an input of one repeated byte give 0.
C10_ByteFrequencies ==
    entropyOut.pc = "returned" =>
        /\ data # <<>> =>
               entropyOut.nonzero =
                   {<<b, <<Occ(b), Len(data)>> >> : b \in {c \in ByteValues : Occ(c) > 0}}
        /\ data = <<>> => entropyOut.zero
        /\ (\E b \in ByteValues : Occ(b) = Len(data)) => entropyOut.zero

====
